---- MODULE Spec2Model ----
(***************************************************************************)
(* A model of generate_calendar.py: the ICS formatting helpers, the static *)
(* 2026 tables, the ESPN UFC extraction/normalisation pass and             *)
(* build_calendar with its failure boundary.                               *)
(*                                                                         *)
(* Representation.                                                         *)
(*  - A text (Python str) is a sequence of atoms.  Each of the characters  *)
(*    the code treats specially (backslash, newline, comma, semicolon) is  *)
(*    always an atom of its own; names read from the page are one          *)
(*    character per atom; the literals of the static tables keep runs of   *)
(*    ordinary characters together (non-ASCII letters transliterated).     *)
(*  - A date is [y, m, d]; a naive datetime is [ord, sec]: its proleptic   *)
(*    Gregorian ordinal (date.toordinal) and its second of the day.        *)
(*  - uuid4 UIDs and DTSTAMP differ on every run and are left out of the   *)
(*    blocks; no property below reads them.                                *)
(***************************************************************************)
EXTENDS Integers, Sequences, FiniteSets, TLC

\* ------------------------------------------------------------------------
\* Bounds of the model
\* ------------------------------------------------------------------------

\* longest text given to ics_escape
MaxLen == 3
\* most dict nodes in the event list of a page
MaxNodes == 2
\* largest small value of max_events tried besides the default
MaxCap == 2
\* years on each side of 2026 whose dates are given to vevent_all_day
YearSpan == 2
\* longest all-day range, in days after its first day
MaxRange == 2

\* ------------------------------------------------------------------------
\* datetime.date / datetime.datetime / timedelta arithmetic
\* ------------------------------------------------------------------------

IsLeap(y) == (y % 4 = 0) /\ ((y % 100 # 0) \/ (y % 400 = 0))

DaysInMonth(y, m) ==
    IF m = 2 THEN (IF IsLeap(y) THEN 29 ELSE 28)
    ELSE IF m \in {4, 6, 9, 11} THEN 30 ELSE 31

DaysBeforeYear(y) ==
    (y - 1) * 365 + ((y - 1) \div 4) - ((y - 1) \div 100) + ((y - 1) \div 400)

RECURSIVE DaysBeforeMonth(_, _)
DaysBeforeMonth(y, m) ==
    IF m = 1 THEN 0 ELSE DaysBeforeMonth(y, m - 1) + DaysInMonth(y, m - 1)

\* date.min.toordinal() and date.max.toordinal()
MinOrd == 1
MaxOrd == 3652059

\* date(y, m, d) is a ValueError outside these ranges
ValidYMD(y, m, d) ==
    /\ y \in 1..9999
    /\ m \in 1..12
    /\ d >= 1
    /\ d <= DaysInMonth(y, m)

ToOrdinal(dt) == DaysBeforeYear(dt.y) + DaysBeforeMonth(dt.y, dt.m) + dt.d

\* the year holding ordinal n
YearOf(n) ==
    LET n0   == n - 1
        n400 == n0 \div 146097
        r400 == n0 % 146097
        n100 == r400 \div 36524
        r100 == r400 % 36524
        n4   == r100 \div 1461
        r4   == r100 % 1461
        n1   == r4 \div 365
        y    == n400 * 400 + n100 * 100 + n4 * 4 + n1 + 1
    IN  IF n1 = 4 \/ n100 = 4 THEN y - 1 ELSE y

RECURSIVE MonthOf(_, _, _)
\* the month of year y holding its day-of-year k (1-based), searching from m
MonthOf(y, k, m) ==
    IF k <= DaysBeforeMonth(y, m) + DaysInMonth(y, m) THEN m
    ELSE MonthOf(y, k, m + 1)

FromOrdinal(n) ==
    LET y == YearOf(n)
        k == n - DaysBeforeYear(y)
        m == MonthOf(y, k, 1)
    IN  [y |-> y, m |-> m, d |-> k - DaysBeforeMonth(y, m)]

\* date + timedelta(days): OverflowError outside date.min..date.max
DateAddOverflows(dt, days) ==
    LET n == ToOrdinal(dt) + days IN n < MinOrd \/ n > MaxOrd

DateAddDays(dt, days) == FromOrdinal(ToOrdinal(dt) + days)

\* datetime + timedelta(days, seconds), on [ord, sec]
DTAddRaw(t, days, secs) ==
    LET total == t.sec + secs
    IN  [ord |-> t.ord + days + (total \div 86400), sec |-> total % 86400]

DTAddOverflows(t, days, secs) ==
    LET r == DTAddRaw(t, days, secs) IN r.ord < MinOrd \/ r.ord > MaxOrd

\* naive datetime comparison a < b
DTLess(a, b) == a.ord < b.ord \/ (a.ord = b.ord /\ a.sec < b.sec)

\* weekday() of an ordinal: Monday = 0 .. Sunday = 6
Weekday(n) == (n + 6) % 7

\* ------------------------------------------------------------------------
\* strftime
\* ------------------------------------------------------------------------

Digit(k) == <<"0", "1", "2", "3", "4", "5", "6", "7", "8", "9">>[k + 1]

RECURSIVE Pad(_, _)
\* n in decimal, zero-padded to w digits
Pad(n, w) == IF w = 0 THEN <<>> ELSE Append(Pad(n \div 10, w - 1), Digit(n % 10))

\* d.strftime("%Y%m%d")
fmt_date(d) == Pad(d.y, 4) \o Pad(d.m, 2) \o Pad(d.d, 2)

\* d.strftime("%Y%m%dT%H%M%S")
fmt_dt_local(t) ==
    fmt_date(FromOrdinal(t.ord)) \o <<"T">>
        \o Pad(t.sec \div 3600, 2) \o Pad((t.sec % 3600) \div 60, 2) \o Pad(t.sec % 60, 2)

\* ------------------------------------------------------------------------
\* Text
\* ------------------------------------------------------------------------

BS == "\\"
NL == "\n"

RECURSIVE Replace(_, _, _)
\* s.replace(ch, repl), ch a single character
Replace(s, ch, repl) ==
    IF s = <<>> THEN <<>>
    ELSE (IF Head(s) = ch THEN repl ELSE <<Head(s)>>) \o Replace(Tail(s), ch, repl)

\* the replacements in another order: the backslash doubled last
ics_escape_backslash_last(s) ==
    Replace(Replace(Replace(Replace(s, NL, <<BS, "n">>), ",", <<BS, ",">>),
                    ";", <<BS, ";">>), BS, <<BS, BS>>)

ics_escape(s) ==
    Replace(Replace(Replace(Replace(s, BS, <<BS, BS>>), NL, <<BS, "n">>),
                    ",", <<BS, ",">>), ";", <<BS, ";">>)

\* str.strip(): whitespace removed at both ends
IsSpace(c) == c \in {" ", "\t", "\n", "\r", "\f"}

RECURSIVE LStrip(_)
LStrip(s) == IF s # <<>> /\ IsSpace(Head(s)) THEN LStrip(Tail(s)) ELSE s

RECURSIVE RStrip(_)
RStrip(s) ==
    IF s # <<>> /\ IsSpace(s[Len(s)]) THEN RStrip(SubSeq(s, 1, Len(s) - 1)) ELSE s

Strip(s) == RStrip(LStrip(s))

\* sub in s
Contains(s, sub) ==
    \E i \in 0..(Len(s) - Len(sub)) : SubSeq(s, i + 1, i + Len(sub)) = sub

UFCToken == <<"U", "F", "C">>

\* ------------------------------------------------------------------------
\* Event blocks.  A content line is [k, p, v]: its name, its parameter
\* (<<>>, or <<name, value>> for ";name=value") and its value; a block is
\* the list `lines` that "\n".join turns into one string.
\* ------------------------------------------------------------------------

Line(k, p, v) == [k |-> k, p |-> p, v |-> v]

\* the optional LOCATION / CATEGORIES / DESCRIPTION lines, in the code's order
OptionalLines(location, categories, description) ==
    (IF location # <<>> THEN <<Line("LOCATION", <<>>, ics_escape(location))>> ELSE <<>>)
    \o (IF categories # <<>> THEN <<Line("CATEGORIES", <<>>, ics_escape(categories))>> ELSE <<>>)
    \o (IF description # <<>> THEN <<Line("DESCRIPTION", <<>>, ics_escape(description))>> ELSE <<>>)

\* the 1-hour reminder and the end of the block
AlarmLines ==
    << Line("BEGIN", <<>>, <<"VALARM">>),
       Line("ACTION", <<>>, <<"DISPLAY">>),
       Line("DESCRIPTION", <<>>, <<"Reminder">>),
       Line("TRIGGER", <<>>, <<"-PT1H">>),
       Line("END", <<>>, <<"VALARM">>),
       Line("END", <<>>, <<"VEVENT">>) >>

\* end_inclusive + timedelta(days=1) raises OverflowError
vevent_all_day_raises(end_inclusive) == DateAddOverflows(end_inclusive, 1)

\* the end date written as it was given: no day added
dtend_exclusive_same_day(end_inclusive) == end_inclusive

dtend_exclusive(end_inclusive) == DateAddDays(end_inclusive, 1)

vevent_all_day(summary, start_inclusive, end_inclusive, location, description, categories) ==
    << Line("BEGIN", <<>>, <<"VEVENT">>),
       Line("SUMMARY", <<>>, ics_escape(summary)),
       Line("DTSTART", <<"VALUE", "DATE">>, fmt_date(start_inclusive)),
       Line("DTEND", <<"VALUE", "DATE">>, fmt_date(dtend_exclusive(end_inclusive))) >>
    \o OptionalLines(location, categories, description)
    \o AlarmLines

\* start_local + timedelta(hours=duration_hours) raises OverflowError
vevent_timed_raises(start_local, duration_hours) ==
    DTAddOverflows(start_local, 0, duration_hours * 3600)

\* the start written as its UTC instant in the basic format with a Z
\* (the record's wall clock is Eastern Standard Time, 5 hours behind UTC)
dtstart_line_utc(tzid, start_local) ==
    Line("DTSTART", <<>>, fmt_dt_local(DTAddRaw(start_local, 0, 5 * 3600)) \o <<"Z">>)

dtstart_line(tzid, start_local) ==
    Line("DTSTART", <<"TZID", tzid>>, fmt_dt_local(start_local))

vevent_timed(summary, start_local, duration_hours, tzid, location, description, categories) ==
    LET end_local == DTAddRaw(start_local, 0, duration_hours * 3600)
    IN  << Line("BEGIN", <<>>, <<"VEVENT">>),
           Line("SUMMARY", <<>>, ics_escape(summary)),
           dtstart_line(tzid, start_local),
           Line("DTEND", <<"TZID", tzid>>, fmt_dt_local(end_local)) >>
        \o OptionalLines(location, categories, description)
        \o AlarmLines

\* ------------------------------------------------------------------------
\* Static calendars (2026)
\* ------------------------------------------------------------------------

F1_2026 ==
    <<
    [name |-> <<"Australian Grand Prix">>, s |-> [y |-> 2026, m |-> 3, d |-> 6],
     e |-> [y |-> 2026, m |-> 3, d |-> 8], loc |-> <<"Melbourne", ",", " Australia">>],
    [name |-> <<"Chinese Grand Prix">>, s |-> [y |-> 2026, m |-> 3, d |-> 13],
     e |-> [y |-> 2026, m |-> 3, d |-> 15], loc |-> <<"Shanghai", ",", " China">>],
    [name |-> <<"Japanese Grand Prix">>, s |-> [y |-> 2026, m |-> 3, d |-> 27],
     e |-> [y |-> 2026, m |-> 3, d |-> 29], loc |-> <<"Suzuka", ",", " Japan">>],
    [name |-> <<"Bahrain Grand Prix">>, s |-> [y |-> 2026, m |-> 4, d |-> 10],
     e |-> [y |-> 2026, m |-> 4, d |-> 12], loc |-> <<"Sakhir", ",", " Bahrain">>],
    [name |-> <<"Saudi Arabian Grand Prix">>, s |-> [y |-> 2026, m |-> 4, d |-> 17],
     e |-> [y |-> 2026, m |-> 4, d |-> 19], loc |-> <<"Jeddah", ",", " Saudi Arabia">>],
    [name |-> <<"Miami Grand Prix">>, s |-> [y |-> 2026, m |-> 5, d |-> 1],
     e |-> [y |-> 2026, m |-> 5, d |-> 3], loc |-> <<"Miami", ",", " USA">>],
    [name |-> <<"Canadian Grand Prix">>, s |-> [y |-> 2026, m |-> 5, d |-> 22],
     e |-> [y |-> 2026, m |-> 5, d |-> 24], loc |-> <<"Montreal", ",", " Canada">>],
    [name |-> <<"Monaco Grand Prix">>, s |-> [y |-> 2026, m |-> 6, d |-> 5],
     e |-> [y |-> 2026, m |-> 6, d |-> 7], loc |-> <<"Monaco">>],
    [name |-> <<"Barcelona-Catalunya Grand Prix">>, s |-> [y |-> 2026, m |-> 6, d |-> 12],
     e |-> [y |-> 2026, m |-> 6, d |-> 14], loc |-> <<"Barcelona", ",", " Spain">>],
    [name |-> <<"Austrian Grand Prix">>, s |-> [y |-> 2026, m |-> 6, d |-> 26],
     e |-> [y |-> 2026, m |-> 6, d |-> 28], loc |-> <<"Spielberg", ",", " Austria">>],
    [name |-> <<"British Grand Prix">>, s |-> [y |-> 2026, m |-> 7, d |-> 3],
     e |-> [y |-> 2026, m |-> 7, d |-> 5], loc |-> <<"Silverstone", ",", " Great Britain">>],
    [name |-> <<"Belgian Grand Prix">>, s |-> [y |-> 2026, m |-> 7, d |-> 17],
     e |-> [y |-> 2026, m |-> 7, d |-> 19], loc |-> <<"Spa-Francorchamps", ",", " Belgium">>],
    [name |-> <<"Hungarian Grand Prix">>, s |-> [y |-> 2026, m |-> 7, d |-> 24],
     e |-> [y |-> 2026, m |-> 7, d |-> 26], loc |-> <<"Budapest", ",", " Hungary">>],
    [name |-> <<"Dutch Grand Prix">>, s |-> [y |-> 2026, m |-> 8, d |-> 21],
     e |-> [y |-> 2026, m |-> 8, d |-> 23], loc |-> <<"Zandvoort", ",", " Netherlands">>],
    [name |-> <<"Italian Grand Prix">>, s |-> [y |-> 2026, m |-> 9, d |-> 4],
     e |-> [y |-> 2026, m |-> 9, d |-> 6], loc |-> <<"Monza", ",", " Italy">>],
    [name |-> <<"Spanish Grand Prix (Madrid)">>, s |-> [y |-> 2026, m |-> 9, d |-> 11],
     e |-> [y |-> 2026, m |-> 9, d |-> 13], loc |-> <<"Madrid", ",", " Spain">>],
    [name |-> <<"Azerbaijan Grand Prix">>, s |-> [y |-> 2026, m |-> 9, d |-> 24],
     e |-> [y |-> 2026, m |-> 9, d |-> 26], loc |-> <<"Baku", ",", " Azerbaijan">>],
    [name |-> <<"Singapore Grand Prix">>, s |-> [y |-> 2026, m |-> 10, d |-> 9],
     e |-> [y |-> 2026, m |-> 10, d |-> 11], loc |-> <<"Singapore">>],
    [name |-> <<"United States Grand Prix">>, s |-> [y |-> 2026, m |-> 10, d |-> 23],
     e |-> [y |-> 2026, m |-> 10, d |-> 25], loc |-> <<"Austin", ",", " USA">>],
    [name |-> <<"Mexico City Grand Prix">>, s |-> [y |-> 2026, m |-> 10, d |-> 30],
     e |-> [y |-> 2026, m |-> 11, d |-> 1], loc |-> <<"Mexico City", ",", " Mexico">>],
    [name |-> <<"Sao Paulo Grand Prix">>, s |-> [y |-> 2026, m |-> 11, d |-> 6],
     e |-> [y |-> 2026, m |-> 11, d |-> 8], loc |-> <<"Sao Paulo", ",", " Brazil">>],
    [name |-> <<"Las Vegas Grand Prix">>, s |-> [y |-> 2026, m |-> 11, d |-> 19],
     e |-> [y |-> 2026, m |-> 11, d |-> 21], loc |-> <<"Las Vegas", ",", " USA">>],
    [name |-> <<"Qatar Grand Prix">>, s |-> [y |-> 2026, m |-> 11, d |-> 27],
     e |-> [y |-> 2026, m |-> 11, d |-> 29], loc |-> <<"Lusail", ",", " Qatar">>],
    [name |-> <<"Abu Dhabi Grand Prix">>, s |-> [y |-> 2026, m |-> 12, d |-> 4],
     e |-> [y |-> 2026, m |-> 12, d |-> 6], loc |-> <<"Abu Dhabi", ",", " UAE">>]
    >>

WRC_2026 ==
    <<
    [name |-> <<"Rallye Monte-Carlo">>, s |-> [y |-> 2026, m |-> 1, d |-> 22],
     e |-> [y |-> 2026, m |-> 1, d |-> 25], loc |-> <<"Monaco">>],
    [name |-> <<"Rally Sweden">>, s |-> [y |-> 2026, m |-> 2, d |-> 12],
     e |-> [y |-> 2026, m |-> 2, d |-> 15], loc |-> <<"Sweden">>],
    [name |-> <<"Safari Rally Kenya">>, s |-> [y |-> 2026, m |-> 3, d |-> 12],
     e |-> [y |-> 2026, m |-> 3, d |-> 15], loc |-> <<"Kenya">>],
    [name |-> <<"Croatia Rally">>, s |-> [y |-> 2026, m |-> 4, d |-> 9],
     e |-> [y |-> 2026, m |-> 4, d |-> 12], loc |-> <<"Croatia">>],
    [name |-> <<"Rally Islas Canarias">>, s |-> [y |-> 2026, m |-> 4, d |-> 23],
     e |-> [y |-> 2026, m |-> 4, d |-> 26], loc |-> <<"Spain">>],
    [name |-> <<"Vodafone Rally de Portugal">>, s |-> [y |-> 2026, m |-> 5, d |-> 7],
     e |-> [y |-> 2026, m |-> 5, d |-> 10], loc |-> <<"Portugal">>],
    [name |-> <<"FORUM8 Rally Japan">>, s |-> [y |-> 2026, m |-> 5, d |-> 28],
     e |-> [y |-> 2026, m |-> 5, d |-> 31], loc |-> <<"Japan">>],
    [name |-> <<"EKO Acropolis Rally Greece">>, s |-> [y |-> 2026, m |-> 6, d |-> 25],
     e |-> [y |-> 2026, m |-> 6, d |-> 28], loc |-> <<"Greece">>],
    [name |-> <<"Delfi Rally Estonia">>, s |-> [y |-> 2026, m |-> 7, d |-> 16],
     e |-> [y |-> 2026, m |-> 7, d |-> 19], loc |-> <<"Estonia">>],
    [name |-> <<"Secto Rally Finland">>, s |-> [y |-> 2026, m |-> 7, d |-> 30],
     e |-> [y |-> 2026, m |-> 8, d |-> 2], loc |-> <<"Finland">>],
    [name |-> <<"ueno Rally del Paraguay">>, s |-> [y |-> 2026, m |-> 8, d |-> 27],
     e |-> [y |-> 2026, m |-> 8, d |-> 30], loc |-> <<"Paraguay">>],
    [name |-> <<"Rally Chile Bio Bio">>, s |-> [y |-> 2026, m |-> 9, d |-> 10],
     e |-> [y |-> 2026, m |-> 9, d |-> 13], loc |-> <<"Chile">>],
    [name |-> <<"Rally Italia Sardegna">>, s |-> [y |-> 2026, m |-> 10, d |-> 1],
     e |-> [y |-> 2026, m |-> 10, d |-> 4], loc |-> <<"Italy">>],
    [name |-> <<"Rally Saudi Arabia">>, s |-> [y |-> 2026, m |-> 11, d |-> 11],
     e |-> [y |-> 2026, m |-> 11, d |-> 14], loc |-> <<"Saudi Arabia">>]
    >>

GTWC_2026 ==
    <<
    [name |-> <<"Circuit Paul Ricard (Round 1)">>, s |-> [y |-> 2026, m |-> 4, d |-> 10],
     e |-> [y |-> 2026, m |-> 4, d |-> 12], loc |-> <<"Le Castellet", ",", " France">>],
    [name |-> <<"Brands Hatch (Round 2)">>, s |-> [y |-> 2026, m |-> 5, d |-> 2],
     e |-> [y |-> 2026, m |-> 5, d |-> 3], loc |-> <<"Kent", ",", " Great Britain">>],
    [name |-> <<"Monza (Round 3)">>, s |-> [y |-> 2026, m |-> 5, d |-> 30],
     e |-> [y |-> 2026, m |-> 5, d |-> 31], loc |-> <<"Monza", ",", " Italy">>],
    [name |-> <<"CrowdStrike 24 Hours of Spa (Round 4)">>, s |-> [y |-> 2026, m |-> 6, d |-> 25],
     e |-> [y |-> 2026, m |-> 6, d |-> 28], loc |-> <<"Spa-Francorchamps", ",", " Belgium">>],
    [name |-> <<"Misano (Round 5)">>, s |-> [y |-> 2026, m |-> 7, d |-> 18],
     e |-> [y |-> 2026, m |-> 7, d |-> 19], loc |-> <<"Misano", ",", " Italy">>],
    [name |-> <<"Magny-Cours (Round 6)">>, s |-> [y |-> 2026, m |-> 8, d |-> 1],
     e |-> [y |-> 2026, m |-> 8, d |-> 2], loc |-> <<"Magny-Cours", ",", " France">>],
    [name |-> <<"Nurburgring (Round 7)">>, s |-> [y |-> 2026, m |-> 8, d |-> 29],
     e |-> [y |-> 2026, m |-> 8, d |-> 30], loc |-> <<"Nurburg", ",", " Germany">>],
    [name |-> <<"Zandvoort (Round 8)">>, s |-> [y |-> 2026, m |-> 9, d |-> 19],
     e |-> [y |-> 2026, m |-> 9, d |-> 20], loc |-> <<"Zandvoort", ",", " Netherlands">>],
    [name |-> <<"Barcelona (Round 9)">>, s |-> [y |-> 2026, m |-> 10, d |-> 3],
     e |-> [y |-> 2026, m |-> 10, d |-> 4], loc |-> <<"Barcelona", ",", " Spain">>],
    [name |-> <<"Portimao (Round 10)">>, s |-> [y |-> 2026, m |-> 10, d |-> 17],
     e |-> [y |-> 2026, m |-> 10, d |-> 18], loc |-> <<"Portimao", ",", " Portugal">>]
    >>

RECURSIVE StaticBlocks(_, _, _, _)
\* the loop "for name, s, e, loc in rows: events.append(vevent_all_day(...))"
StaticBlocks(rows, prefix, description, categories) ==
    IF rows = <<>> THEN <<>>
    ELSE << vevent_all_day(prefix \o Head(rows).name, Head(rows).s, Head(rows).e,
                           Head(rows).loc, description, categories) >>
         \o StaticBlocks(Tail(rows), prefix, description, categories)

add_static_f1_2026(evs) ==
    evs \o StaticBlocks(F1_2026, <<"(blue square) F1 - ">>,
                        <<"Race weekend dates (session times not included).">>,
                        <<"Formula 1">>)

add_static_wrc_2026(evs) ==
    evs \o StaticBlocks(WRC_2026, <<"(green square) WRC - ">>,
                        <<"Rally date range (stage times not included).">>,
                        <<"WRC">>)

add_static_gtwc_europe_2026(evs) ==
    evs \o StaticBlocks(GTWC_2026, <<"(red square) GTWC Europe - ">>,
                        <<"Race weekend dates (session times not included).">>,
                        <<"GT World Challenge Europe">>)


\* ------------------------------------------------------------------------
\* JSON values, as json.loads returns them.  Every value is a record
\* [t, txt, iso, kv]:
\*   t   : "null", "num" (a non-zero number), "str", "list" or "dict";
\*   txt : the characters of a str that is ordinary text;
\*   iso : the fields of a str written as an ISO-8601 date-time with a "Z"
\*         or a numeric UTC offset (form "iso"), whether or not they are
\*         in range; form "text" for every other value;
\*   kv  : the members of a dict, in insertion order, as [k, v]; the items
\*         of a list, with k = "".
\* ------------------------------------------------------------------------

NoIso == [form |-> "text", y |-> 0, mo |-> 0, d |-> 0, h |-> 0, mi |-> 0, s |-> 0, off |-> 0]

Iso(y, mo, d, h, mi, s, off) ==
    [form |-> "iso", y |-> y, mo |-> mo, d |-> d, h |-> h, mi |-> mi, s |-> s, off |-> off]

JNull == [t |-> "null", txt |-> <<>>, iso |-> NoIso, kv |-> <<>>]
JNum == [t |-> "num", txt |-> <<>>, iso |-> NoIso, kv |-> <<>>]
JStr(txt) == [t |-> "str", txt |-> txt, iso |-> NoIso, kv |-> <<>>]
JIsoStr(iso) == [t |-> "str", txt |-> <<>>, iso |-> iso, kv |-> <<>>]
JList(items) ==
    [t |-> "list", txt |-> <<>>, iso |-> NoIso,
     kv |-> [i \in 1..Len(items) |-> [k |-> "", v |-> items[i]]]]
JDict(members) == [t |-> "dict", txt |-> <<>>, iso |-> NoIso, kv |-> members]
KV(k, v) == [k |-> k, v |-> v]

\* bool(v)
Truthy(v) ==
    CASE v.t = "null" -> FALSE
      [] v.t = "num" -> TRUE
      [] v.t = "str" -> v.txt # <<>> \/ v.iso.form = "iso"
      [] OTHER -> v.kv # <<>>

\* node.get(key): None when the key is absent
Get(node, key) ==
    IF \E i \in 1..Len(node.kv) : node.kv[i].k = key
    THEN node.kv[CHOOSE i \in 1..Len(node.kv) : node.kv[i].k = key].v
    ELSE JNull

\* a or b
Or(a, b) == IF Truthy(a) THEN a ELSE b

RECURSIVE WalkAll(_)
RECURSIVE _walk(_)
\* the concatenation of _walk over the members of a container, in order
WalkAll(members) ==
    IF members = <<>> THEN <<>> ELSE _walk(Head(members).v) \o WalkAll(Tail(members))

\* every nested dict and list, the container before what it holds
_walk(obj) ==
    IF obj.t \in {"dict", "list"} THEN <<obj>> \o WalkAll(obj.kv) ELSE <<>>

\* ------------------------------------------------------------------------
\* Date parsing and the conversion to Eastern time
\* ------------------------------------------------------------------------

\* datetime.fromisoformat(dt_str.replace("Z", "+00:00")) raises ValueError
fromisoformat_raises(v) ==
    \/ v.iso.form # "iso"
    \/ ~ValidYMD(v.iso.y, v.iso.mo, v.iso.d)
    \/ v.iso.h \notin 0..23
    \/ v.iso.mi \notin 0..59
    \/ v.iso.s \notin 0..59
    \/ v.iso.off <= -1440
    \/ v.iso.off >= 1440

\* the aware datetime: its wall clock [ord, sec] and its UTC offset in minutes
fromisoformat(v) ==
    [ord |-> ToOrdinal([y |-> v.iso.y, m |-> v.iso.mo, d |-> v.iso.d]),
     sec |-> v.iso.h * 3600 + v.iso.mi * 60 + v.iso.s,
     off |-> v.iso.off]

\* the n-th Sunday (n >= 1) of month m of year y, as an ordinal
NthSunday(y, m, n) ==
    LET first == ToOrdinal([y |-> y, m |-> m, d |-> 1])
    IN  first + ((6 - Weekday(first)) % 7) + 7 * (n - 1)

\* America/New_York at a UTC wall clock, in seconds east of UTC, by the rule
\* in force from 2007 on: daylight time from 02:00 EST on the second Sunday
\* of March to 02:00 EDT on the first Sunday of November
EasternUTCOffset(utc) ==
    LET y     == YearOf(utc.ord)
        start == [ord |-> NthSunday(y, 3, 2), sec |-> 7 * 3600]
        stop  == [ord |-> NthSunday(y, 11, 1), sec |-> 6 * 3600]
    IN  IF ~DTLess(utc, start) /\ DTLess(utc, stop) THEN -4 * 3600 ELSE -5 * 3600

\* dt_utc.astimezone(et) raises OverflowError: the UTC wall clock, or the
\* Eastern one, falls outside datetime.min..datetime.max
astimezone_raises(dt) ==
    \/ DTAddOverflows(dt, 0, -(dt.off * 60))
    \/ LET utc == DTAddRaw(dt, 0, -(dt.off * 60))
       IN  DTAddOverflows(utc, 0, EasternUTCOffset(utc))

\* dt_utc.astimezone(et).replace(tzinfo=None)
astimezone_et(dt) ==
    LET utc == DTAddRaw(dt, 0, -(dt.off * 60))
    IN  DTAddRaw(utc, 0, EasternUTCOffset(utc))

\* the inner try/except: the Eastern wall clock, or the parsed wall clock kept
\* as it is when zoneinfo or its time zone data is missing (tzdb = FALSE)
\* or the conversion overflows
to_et(dt, tzdb) ==
    IF tzdb /\ ~astimezone_raises(dt) THEN astimezone_et(dt)
    ELSE [ord |-> dt.ord, sec |-> dt.sec]

\* ------------------------------------------------------------------------
\* fetch_ufc_events_from_espn
\* ------------------------------------------------------------------------

UFCEvent(name, start_et, location) ==
    [name |-> name, start_et |-> start_et, location |-> location]

\* the look-back window, in days
StaleDays == 7

\* the staleness test with <= for <
IsStale_inclusive(dt_et, now) == ~DTLess(DTAddRaw(now, -StaleDays, 0), dt_et)

\* dt_et < (now - timedelta(days=7))
IsStale(dt_et, now) == DTLess(dt_et, DTAddRaw(now, -StaleDays, 0))

\* the name, date and location the loop body reads from a node
NodeName(node) == Or(Or(Get(node, "name"), Get(node, "shortName")), Get(node, "description"))
NodeDate(node) == Or(Or(Get(node, "date"), Get(node, "startDate")), Get(node, "startTime"))
NodeLoc(node) == Or(Or(Get(node, "location"), Get(node, "venue")), JStr(<<>>))

\* "Normalize location"
NormLoc(loc) ==
    LET l1 == IF loc.t = "dict"
              THEN Or(Or(Get(loc, "fullName"), Get(loc, "name")), JStr(<<>>))
              ELSE loc
    IN  IF l1.t = "str" THEN l1.txt ELSE <<>>

\* the date text parsed although it is out of range: no ValueError
DateParses_lenient(node) == NodeDate(node).iso.form = "iso"

\* the try around fromisoformat falls through
DateParses(node) == ~fromisoformat_raises(NodeDate(node))

\* the node reaches the staleness test: a dict with a str name holding
\* "UFC" and a str date that parses
Passes(node) ==
    /\ node.t = "dict"
    /\ NodeName(node).t = "str"
    /\ NodeDate(node).t = "str"
    /\ Contains(NodeName(node).txt, UFCToken)
    /\ DateParses(node)

StartOf(node, tzdb) == to_et(fromisoformat(NodeDate(node)), tzdb)

\* the node is appended to `found`
Accepted(node, now, tzdb) == Passes(node) /\ ~IsStale(StartOf(node, tzdb), now)

EventOf(node, tzdb) ==
    UFCEvent(NodeName(node).txt, StartOf(node, tzdb), NormLoc(NodeLoc(node)))

RECURSIVE Collect(_, _, _, _, _)
\* the loop over _walk(data), with its break once len(found) >= max_events
Collect(nodes, found, now, tzdb, max_events) ==
    IF nodes = <<>> THEN found
    ELSE IF ~Accepted(Head(nodes), now, tzdb)
         THEN Collect(Tail(nodes), found, now, tzdb, max_events)
         ELSE LET f2 == Append(found, EventOf(Head(nodes), tzdb))
              IN  IF Len(f2) >= max_events THEN f2
                  ELSE Collect(Tail(nodes), f2, now, tzdb, max_events)

\* the identity key with the name as it is: not trimmed
KeyOf_untrimmed(ev) == <<ev.name, ev.start_et>>

KeyOf(ev) == <<Strip(ev.name), ev.start_et>>

RECURSIVE Dedup(_, _)
\* "uniq[key] = ev" over found: a dict keeps a key at its first position and
\* takes its last value; uniq is a list of [key, ev]
Dedup(found, uniq) ==
    IF found = <<>> THEN [i \in 1..Len(uniq) |-> uniq[i].ev]
    ELSE LET ev  == Head(found)
             key == KeyOf(ev)
         IN  IF \E i \in 1..Len(uniq) : uniq[i].key = key
             THEN Dedup(Tail(found),
                        [i \in 1..Len(uniq) |->
                            IF uniq[i].key = key THEN [key |-> key, ev |-> ev] ELSE uniq[i]])
             ELSE Dedup(Tail(found), Append(uniq, [key |-> key, ev |-> ev]))

RECURSIVE InsertSorted(_, _)
\* ev placed after every element that does not start later: a stable sort
InsertSorted(sorted, ev) ==
    IF sorted = <<>> THEN <<ev>>
    ELSE IF DTLess(ev.start_et, Head(sorted).start_et) THEN <<ev>> \o sorted
         ELSE <<Head(sorted)>> \o InsertSorted(Tail(sorted), ev)

RECURSIVE SortAsc(_, _)
SortAsc(evs, acc) ==
    IF evs = <<>> THEN acc ELSE SortAsc(Tail(evs), InsertSorted(acc, Head(evs)))

\* the values left in the order they were first seen
SortByStart_unsorted(evs) == evs

\* sorted(uniq.values(), key=lambda x: x.start_et)
SortByStart(evs) == SortAsc(evs, <<>>)

Return(ret) == [raised |-> FALSE, msg |-> <<>>, ret |-> ret]
Raise(msg) == [raised |-> TRUE, msg |-> msg, ret |-> <<>>]

\* str(e) of what json.loads raises
JSONDecodeErrorMsg == <<"Expecting value: line 1 column 1 (char 0)">>
RecursionErrorMsg == <<"maximum recursion depth exceeded">>
OverflowErrorMsg == <<"date value out of range">>

\* the function without its "if not m: return []": m.group(1) on no match
fetch_ufc_events_from_espn_no_match_check(resp, now, tzdb, max_events) ==
    IF resp.status # "ok" THEN Raise(resp.msg)
    ELSE IF resp.script = "absent"
         THEN Raise(<<"'NoneType' object has no attribute 'group'">>)
    ELSE IF resp.script = "invalid" THEN Raise(JSONDecodeErrorMsg)
    ELSE IF resp.script = "deep" THEN Raise(RecursionErrorMsg)
    ELSE Return(SortByStart(Dedup(Collect(_walk(resp.data), <<>>, now, tzdb, max_events),
                                  <<>>)))

\* the response resp of the one HTTP GET:
\*   status : "ok", or the exception requests.get raises, with its text msg;
\*   script : "absent" (no __NEXT_DATA__ script in the page), "invalid" (its
\*            content is not JSON), "deep" (JSON nested beyond the
\*            interpreter's recursion limit) or "json";
\*   data   : the value the script's content denotes.
fetch_ufc_events_from_espn(resp, now, tzdb, max_events) ==
    IF resp.status # "ok" THEN Raise(resp.msg)
    ELSE IF resp.script = "absent" THEN Return(<<>>)
    ELSE IF resp.script = "invalid" THEN Raise(JSONDecodeErrorMsg)
    ELSE IF resp.script = "deep" THEN Raise(RecursionErrorMsg)
    ELSE Return(SortByStart(Dedup(Collect(_walk(resp.data), <<>>, now, tzdb, max_events),
                                  <<>>)))


\* ------------------------------------------------------------------------
\* add_dynamic_ufc and build_calendar
\* ------------------------------------------------------------------------

\* max_events as add_dynamic_ufc leaves it: the default
DefaultMaxEvents == 200

\* the block add_dynamic_ufc appends for one record
UFCBlock(ev) ==
    vevent_timed(<<"(purple square) ">> \o ev.name, ev.start_et, 5, "America/New_York",
                 ev.location, <<"Auto-updated from ESPN UFC schedule.">>, <<"UFC">>)

\* some record's block cannot be built: its end is past datetime.max
EmitRaises(ufc) == \E i \in 1..Len(ufc) : vevent_timed_raises(ufc[i].start_et, 5)

RECURSIVE EmitPrefix(_)
\* the blocks appended before the loop ends or vevent_timed raises
EmitPrefix(ufc) ==
    IF ufc = <<>> \/ vevent_timed_raises(Head(ufc).start_et, 5) THEN <<>>
    ELSE <<UFCBlock(Head(ufc))>> \o EmitPrefix(Tail(ufc))

PlaceholderSummary == <<"(purple square) UFC - (Auto-update temporarily unavailable)">>

\* the block of the except branch; today is date.today()
PlaceholderBlock(today, msg) ==
    vevent_all_day(PlaceholderSummary, today, today, <<>>,
                   <<"UFC fetch failed: ">> \o msg, <<"UFC">>)

CalendarHeader ==
    << Line("BEGIN", <<>>, <<"VCALENDAR">>),
       Line("VERSION", <<>>, <<"2.0">>),
       Line("PRODID", <<>>, <<"-//Custom Sports Master Feed//EN">>),
       Line("CALSCALE", <<>>, <<"GREGORIAN">>),
       Line("METHOD", <<>>, <<"PUBLISH">>),
       Line("X-WR-CALNAME", <<>>, <<"WRC + GTWC Europe + F1 + UFC (Master Feed)">>),
       Line("X-WR-TIMEZONE", <<>>, <<"America/New_York">>) >>

CalendarFooter == << Line("END", <<>>, <<"VCALENDAR">>), Line("", <<>>, <<>>) >>

RECURSIVE Flatten(_)
\* "\n".join over the blocks: their lines one after the other
Flatten(blocks) == IF blocks = <<>> THEN <<>> ELSE Head(blocks) \o Flatten(Tail(blocks))

\* ------------------------------------------------------------------------
\* The inputs the model draws
\* ------------------------------------------------------------------------

\* the wall clock of the run (datetime.now(), date.today())
Now0 == [ord |-> ToOrdinal([y |-> 2026, m |-> 3, d |-> 7]), sec |-> 19 * 3600]
NowChoices == {Now0, DTAddRaw(Now0, 0, 1)}

UFCName == JStr(<<"U", "F", "C">>)
UFCNamePadded == JStr(<<" ", "U", "F", "C", " ">>)
UFCName2 == JStr(<<"U", "F", "C", "2">>)
OtherName == JStr(<<"P", "F", "L">>)

EventNode(name, date, loc) ==
    JDict(<<KV("name", name), KV("date", JIsoStr(date)), KV("location", loc)>>)

\* 2026-03-01T00:00:00Z is 2026-02-28 19:00:00 in New York: Now0 - 7 days
AtWindowEdge == Iso(2026, 3, 1, 0, 0, 0, 0)

NodeChoices ==
    { EventNode(UFCName, AtWindowEdge, JStr(<<"L", ",", "V">>)),
      \* the same event again, its name padded and its venue a dict
      EventNode(UFCNamePadded, AtWindowEdge, JDict(<<KV("fullName", JStr(<<"T">>))>>)),
      \* one second before the edge of the window
      EventNode(UFCName, Iso(2026, 2, 28, 23, 59, 59, 0), JNull),
      \* 6 days 23 hours before Now0
      EventNode(UFCName2, Iso(2026, 3, 1, 1, 0, 0, 0), JNull),
      \* in daylight time, written with an offset, under the alternative keys
      JDict(<<KV("shortName", UFCName), KV("startDate", JIsoStr(Iso(2026, 7, 4, 22, 0, 0, -240))),
              KV("venue", JDict(<<KV("name", JStr(<<"A">>))>>))>>),
      \* not a UFC event
      EventNode(OtherName, Iso(2026, 3, 14, 0, 0, 0, 0), JNull),
      \* dates that do not parse: no ISO text, and the 30th of February
      JDict(<<KV("name", UFCName), KV("date", JStr(<<"T", "B", "D">>))>>),
      EventNode(UFCName2, Iso(2026, 2, 30, 19, 0, 0, 0), JNull),
      \* a name that is no str
      JDict(<<KV("name", JNum), KV("date", JIsoStr(AtWindowEdge))>>),
      \* the last half hour of the year 9999, ten hours behind UTC
      EventNode(UFCName, Iso(9999, 12, 31, 23, 30, 0, -600), JNull) }

RECURSIVE SeqsUpTo(_, _)
\* the sequences over S of length at most n
SeqsUpTo(S, n) ==
    IF n = 0 THEN {<<>>}
    ELSE LET shorter == SeqsUpTo(S, n - 1)
         IN  shorter \cup {Append(q, x) : q \in shorter, x \in S}

\* the event list where Next.js pages keep it
Wrap(nodes) ==
    JDict(<<KV("buildId", JStr(<<"b">>)),
            KV("props", JDict(<<KV("events", JList(nodes))>>))>>)

\* an event that holds another event in a list of its own
NestedEvent ==
    JDict(<<KV("name", UFCName2), KV("date", JIsoStr(Iso(2026, 3, 14, 0, 0, 0, 0))),
            KV("competitions",
               JList(<<EventNode(UFCName, Iso(2026, 3, 1, 1, 0, 0, 0), JNull)>>))>>)

DataChoices(n) ==
    {Wrap(nodes) : nodes \in SeqsUpTo(NodeChoices, n)}
        \cup {JNull, JNum, JStr(<<"x">>), JList(<<>>), JList(<<JNum, NestedEvent>>)}

OkResponse(script, data) == [status |-> "ok", msg |-> <<>>, script |-> script, data |-> data]

FailedResponses ==
    { [status |-> "ConnectionError",
       msg |-> <<"Max retries exceeded", ",", " connection refused">>,
       script |-> "absent", data |-> JNull],
      [status |-> "Timeout", msg |-> <<"Read timed out. (read timeout=30)">>,
       script |-> "absent", data |-> JNull] }

Responses(n) ==
    FailedResponses
        \cup {OkResponse(s, JNull) : s \in {"absent", "invalid", "deep"}}
        \cup {OkResponse("json", d) : d \in DataChoices(n)}

\* ------------------------------------------------------------------------
\* State
\* ------------------------------------------------------------------------

VARIABLES
    pc,           \* where the run is
    resp,         \* what the HTTP GET will answer
    now,          \* the wall clock of the run
    tzdb,         \* zoneinfo and its America/New_York data are available
    max_events,   \* the argument of fetch_ufc_events_from_espn
    ret,          \* what fetch_ufc_events_from_espn returned or raised
    events,       \* build_calendar's list of blocks
    exc,          \* the exception caught by build_calendar, if any
    doc,          \* what build_calendar returned: the lines of the document
    text,         \* the argument of ics_escape
    escaped,      \* its result
    span,         \* the arguments of vevent_all_day: its first and last day
    block         \* its result

vars == <<pc, resp, now, tzdb, max_events, ret, events, exc, doc, text, escaped, span, block>>

NoExc == [raised |-> FALSE, msg |-> <<>>]
NoSpan == [start_inclusive |-> [y |-> 2026, m |-> 1, d |-> 1],
           end_inclusive |-> [y |-> 2026, m |-> 1, d |-> 1]]

IdleHelpers ==
    /\ text = <<>>
    /\ escaped = <<>>
    /\ span = NoSpan
    /\ block = <<>>

IdlePipeline ==
    /\ resp = OkResponse("absent", JNull)
    /\ now = Now0
    /\ tzdb = TRUE
    /\ max_events = DefaultMaxEvents
    /\ ret = Return(<<>>)
    /\ events = <<>>
    /\ exc = NoExc
    /\ doc = <<>>

\* ------------------------------------------------------------------------
\* build_calendar, run once
\* ------------------------------------------------------------------------

Init ==
    /\ pc = "start"
    /\ resp \in Responses(MaxNodes)
    /\ now \in NowChoices
    /\ tzdb \in BOOLEAN
    /\ max_events = DefaultMaxEvents
    /\ ret = Return(<<>>)
    /\ events = <<>>
    /\ exc = NoExc
    /\ doc = <<>>
    /\ IdleHelpers

\* the three add_static_* calls
AddStatic ==
    /\ pc = "start"
    /\ events' = add_static_gtwc_europe_2026(add_static_wrc_2026(add_static_f1_2026(events)))
    /\ pc' = "static"
    /\ UNCHANGED <<resp, now, tzdb, max_events, ret, exc, doc, text, escaped, span, block>>

\* add_dynamic_ufc(events) runs to its end
AddDynamicUFCReturns ==
    /\ pc = "static"
    /\ LET r == fetch_ufc_events_from_espn(resp, now, tzdb, max_events)
       IN  /\ ~r.raised
           /\ ~EmitRaises(r.ret)
           /\ ret' = r
           /\ events' = events \o EmitPrefix(r.ret)
    /\ pc' = "assemble"
    /\ UNCHANGED <<resp, now, tzdb, max_events, exc, doc, text, escaped, span, block>>

\* add_dynamic_ufc(events) raises, in the fetch or while it appends blocks;
\* the blocks appended before that stay in events
AddDynamicUFCRaises ==
    /\ pc = "static"
    /\ LET r == fetch_ufc_events_from_espn(resp, now, tzdb, max_events)
       IN  /\ r.raised \/ EmitRaises(r.ret)
           /\ ret' = r
           /\ events' = events \o EmitPrefix(r.ret)
           /\ exc' = [raised |-> TRUE, msg |-> IF r.raised THEN r.msg ELSE OverflowErrorMsg]
    /\ pc' = "except"
    /\ UNCHANGED <<resp, now, tzdb, max_events, doc, text, escaped, span, block>>

\* the placeholder put in place of the list instead of appended to it
Placeholder_resets_events ==
    /\ pc = "except"
    /\ ~vevent_all_day_raises(FromOrdinal(now.ord))
    /\ events' = <<PlaceholderBlock(FromOrdinal(now.ord), exc.msg)>>
    /\ pc' = "assemble"
    /\ UNCHANGED <<resp, now, tzdb, max_events, ret, exc, doc, text, escaped, span, block>>

\* except Exception as e: the placeholder
Placeholder ==
    /\ pc = "except"
    /\ ~vevent_all_day_raises(FromOrdinal(now.ord))
    /\ events' = Append(events, PlaceholderBlock(FromOrdinal(now.ord), exc.msg))
    /\ pc' = "assemble"
    /\ UNCHANGED <<resp, now, tzdb, max_events, ret, exc, doc, text, escaped, span, block>>

\* cal_lines and the return
Assemble ==
    /\ pc = "assemble"
    /\ doc' = CalendarHeader \o Flatten(events) \o CalendarFooter
    /\ pc' = "done"
    /\ UNCHANGED <<resp, now, tzdb, max_events, ret, events, exc, text, escaped, span, block>>

Next == AddStatic \/ AddDynamicUFCReturns \/ AddDynamicUFCRaises \/ Placeholder \/ Assemble

Spec == Init /\ [][Next]_vars

\* ------------------------------------------------------------------------
\* fetch_ufc_events_from_espn, called once with any max_events
\* ------------------------------------------------------------------------

InitFetch ==
    /\ pc = "fetch_call"
    /\ resp \in Responses(MaxNodes + 1)
    /\ now \in NowChoices
    /\ tzdb = TRUE
    /\ max_events \in (0..MaxCap) \cup {DefaultMaxEvents}
    /\ ret = Return(<<>>)
    /\ events = <<>>
    /\ exc = NoExc
    /\ doc = <<>>
    /\ IdleHelpers

FetchCall ==
    /\ pc = "fetch_call"
    /\ ret' = fetch_ufc_events_from_espn(resp, now, tzdb, max_events)
    /\ pc' = "fetch_done"
    /\ UNCHANGED <<resp, now, tzdb, max_events, events, exc, doc, text, escaped, span, block>>

NextFetch == FetchCall

SpecFetch == InitFetch /\ [][NextFetch]_vars

\* ------------------------------------------------------------------------
\* ics_escape, called once
\* ------------------------------------------------------------------------

Alphabet == {BS, NL, ",", ";", "n", "a"}

InitEscape ==
    /\ pc = "escape_call"
    /\ text \in SeqsUpTo(Alphabet, MaxLen)
    /\ escaped = <<>>
    /\ span = NoSpan
    /\ block = <<>>
    /\ IdlePipeline

EscapeCall ==
    /\ pc = "escape_call"
    /\ escaped' = ics_escape(text)
    /\ pc' = "escape_done"
    /\ UNCHANGED <<resp, now, tzdb, max_events, ret, events, exc, doc, text, span, block>>

NextEscape == EscapeCall

SpecEscape == InitEscape /\ [][NextEscape]_vars

\* ------------------------------------------------------------------------
\* vevent_all_day, called once
\* ------------------------------------------------------------------------

\* every day of the years 2026 - YearSpan .. 2026 + YearSpan
Days ==
    { [y |-> y, m |-> m, d |-> d] :
        y \in (2026 - YearSpan)..(2026 + YearSpan), m \in 1..12, d \in 1..31 }

InitAllDay ==
    /\ pc = "all_day_call"
    /\ span \in { [start_inclusive |-> DateAddDays(e, -k), end_inclusive |-> e] :
                    e \in {x \in Days : ValidYMD(x.y, x.m, x.d)}, k \in 0..MaxRange }
    /\ text = <<>>
    /\ escaped = <<>>
    /\ block = <<>>
    /\ IdlePipeline

AllDayCall ==
    /\ pc = "all_day_call"
    /\ ~vevent_all_day_raises(span.end_inclusive)
    /\ block' = vevent_all_day(<<"S">>, span.start_inclusive, span.end_inclusive,
                               <<>>, <<>>, <<>>)
    /\ pc' = "all_day_done"
    /\ UNCHANGED <<resp, now, tzdb, max_events, ret, events, exc, doc, text, escaped, span>>

NextAllDay == AllDayCall

SpecAllDay == InitAllDay /\ [][NextAllDay]_vars


\* ------------------------------------------------------------------------
\* Reading a document back
\* ------------------------------------------------------------------------

BeginVEVENT == Line("BEGIN", <<>>, <<"VEVENT">>)
EndVEVENT == Line("END", <<>>, <<"VEVENT">>)

RECURSIVE Ascending(_)
\* the numbers of a finite set, smallest first
Ascending(S) ==
    IF S = {} THEN <<>>
    ELSE LET least == CHOOSE x \in S : \A y \in S : x <= y
         IN  <<least>> \o Ascending(S \ {least})

\* the VEVENT blocks of a document: the lines from each BEGIN:VEVENT to the
\* END:VEVENT that follows it
BlocksOf(lines) ==
    LET begins == Ascending({i \in 1..Len(lines) : lines[i] = BeginVEVENT})
        ends   == Ascending({i \in 1..Len(lines) : lines[i] = EndVEVENT})
    IN  IF Len(begins) # Len(ends) THEN <<>>
        ELSE [k \in 1..Len(begins) |-> SubSeq(lines, begins[k], ends[k])]

\* the first line named k of block b
LineOf(b, k) ==
    b[CHOOSE i \in 1..Len(b) : b[i].k = k /\ \A j \in 1..(i - 1) : b[j].k # k]

\* the blocks of the three static tables, as a run that does not fail has them
StaticReference ==
    add_static_gtwc_europe_2026(add_static_wrc_2026(add_static_f1_2026(<<>>)))

NStatic == Len(F1_2026) + Len(WRC_2026) + Len(GTWC_2026)

IsPlaceholder(b) ==
    /\ LineOf(b, "SUMMARY").v = PlaceholderSummary
    /\ LineOf(b, "DTSTART").p = <<"VALUE", "DATE">>

\* the blocks of the document after the static ones
DynamicBlocks == LET bs == BlocksOf(doc) IN SubSeq(bs, NStatic + 1, Len(bs))

\* the UFC event blocks of the document
UFCBlocks == SelectSeq(DynamicBlocks, LAMBDA b : ~IsPlaceholder(b))

\* a before b, on naive datetimes
Earlier(a, b) == a.ord < b.ord \/ (a.ord = b.ord /\ a.sec < b.sec)

\* the value of a decimal digit
DigitValue(c) == CHOOSE k \in 0..9 : Digit(k) = c

RECURSIVE Number(_)
\* the number written by a sequence of digits
Number(ds) ==
    IF ds = <<>> THEN 0 ELSE 10 * Number(SubSeq(ds, 1, Len(ds) - 1)) + DigitValue(ds[Len(ds)])

\* the date written YYYYMMDD
DecodeDate(v) ==
    [y |-> Number(SubSeq(v, 1, 4)), m |-> Number(SubSeq(v, 5, 6)), d |-> Number(SubSeq(v, 7, 8))]

\* the day after and the day before a date, by the calendar's rules
NextDay(dt) ==
    IF dt.d < DaysInMonth(dt.y, dt.m) THEN [dt EXCEPT !.d = dt.d + 1]
    ELSE IF dt.m < 12 THEN [y |-> dt.y, m |-> dt.m + 1, d |-> 1]
    ELSE [y |-> dt.y + 1, m |-> 1, d |-> 1]

PrevDay(dt) ==
    IF dt.d > 1 THEN [dt EXCEPT !.d = dt.d - 1]
    ELSE IF dt.m > 1 THEN [y |-> dt.y, m |-> dt.m - 1, d |-> DaysInMonth(dt.y, dt.m - 1)]
    ELSE [y |-> dt.y - 1, m |-> 12, d |-> 31]

\* the wall clock written YYYYMMDDTHHMMSS, as [date, h, mi, s]
DecodeLocal(v) ==
    [date |-> DecodeDate(SubSeq(v, 1, 8)), h |-> Number(SubSeq(v, 10, 11)),
     mi |-> Number(SubSeq(v, 12, 13)), s |-> Number(SubSeq(v, 14, 15))]

\* the wall clock of a naive datetime, as [date, h, mi, s]
WallClock(t) ==
    [date |-> FromOrdinal(t.ord), h |-> t.sec \div 3600, mi |-> (t.sec % 3600) \div 60,
     s |-> t.sec % 60]

RECURSIVE ics_unescape(_)
\* the escaping rules read backwards, left to right: a backslash and the
\* character after it stand for one character
ics_unescape(s) ==
    IF s = <<>> THEN <<>>
    ELSE IF Head(s) = BS /\ Len(s) >= 2
         THEN <<IF s[2] = "n" THEN NL ELSE s[2]>> \o ics_unescape(SubSeq(s, 3, Len(s)))
         ELSE <<Head(s)>> \o ics_unescape(Tail(s))

\* what the escaping rules make of one character
EscapeOne(c) ==
    CASE c = BS -> <<BS, BS>>
      [] c = NL -> <<BS, "n">>
      [] c = "," -> <<BS, ",">>
      [] c = ";" -> <<BS, ";">>
      [] OTHER -> <<c>>

RECURSIVE EscapeEach(_)
EscapeEach(s) == IF s = <<>> THEN <<>> ELSE EscapeOne(Head(s)) \o EscapeEach(Tail(s))

RECURSIVE BackslashesBefore(_, _)
\* the length of the run of backslashes that ends right before s[i]
BackslashesBefore(s, i) ==
    IF i > 1 /\ s[i - 1] = BS THEN 1 + BackslashesBefore(s, i - 1) ELSE 0

\* the nodes of the page, in the order the loop sees them
PageNodes == _walk(resp.data)

\* the node's date text is a str that does not parse
Unparseable(node) ==
    /\ node.t = "dict"
    /\ NodeDate(node).t = "str"
    /\ fromisoformat_raises(NodeDate(node))

\* the identity of a record: its name trimmed, and its start
Identity(ev) == <<Strip(ev.name), ev.start_et>>

FetchReturned == pc = "fetch_done" /\ resp.status = "ok" /\ resp.script = "json" /\ ~ret.raised

\* the nodes that pass the name filter, date parsing and the staleness filter
PassingNodes == SelectSeq(PageNodes, LAMBDA n : Accepted(n, now, tzdb))


\* ------------------------------------------------------------------------
\* Properties
\* ------------------------------------------------------------------------

AfterFetch == pc \in {"assemble", "except", "done"}

\* the text of the failure the run met, by where it failed
FailureText ==
    IF resp.status # "ok" THEN resp.msg
    ELSE IF resp.script = "invalid" THEN JSONDecodeErrorMsg
    ELSE IF resp.script = "deep" THEN RecursionErrorMsg
    ELSE OverflowErrorMsg

\* C1: however the dynamic UFC step fails inside build_calendar (the fetch,
\* the JSON decoding, the building of a block), the failure is caught and the
\* except branch itself does not raise, so nothing reaches the caller; the
\* document returned holds every static F1, WRC and GTWC block, unchanged
\* and in the order of a run without failure, and exactly one all-day
\* placeholder block whose description carries the failure text.
C1_FailureIsolated ==
    /\ (exc.raised => pc \in {"except", "assemble", "done"})
    /\ (pc = "except" => ~vevent_all_day_raises(FromOrdinal(now.ord)))
    /\ (pc = "done" /\ exc.raised =>
          LET bs == BlocksOf(doc)
              ph == {i \in 1..Len(bs) : IsPlaceholder(bs[i])}
          IN  /\ doc = CalendarHeader \o Flatten(bs) \o CalendarFooter
              /\ Len(bs) > NStatic
              /\ SubSeq(bs, 1, NStatic) = StaticReference
              /\ Cardinality(ph) = 1
              /\ \A i \in ph :
                    LineOf(bs[i], "DESCRIPTION").v
                        = <<"UFC fetch failed: ">> \o EscapeEach(FailureText))

\* C1, reached: the connection was refused and the document was returned
C1_Witness == pc = "done" /\ exc.raised /\ resp.status = "ConnectionError"

\* C2 as claimed: whenever the HTTP fetch succeeds, extraction does not
\* raise whatever the page holds, and the document has no placeholder.
C2_Original ==
    (pc = "done" /\ resp.status = "ok") =>
        /\ ~ret.raised
        /\ \A i \in 1..Len(BlocksOf(doc)) : ~IsPlaceholder(BlocksOf(doc)[i])

\* some record starts within 5 hours of datetime.max: its end is out of range
EndOutOfRange(ufc) ==
    \E i \in 1..Len(ufc) : ufc[i].start_et.ord = MaxOrd /\ ufc[i].start_et.sec >= 19 * 3600

\* C2, amended: when the HTTP fetch succeeds, fetch_ufc_events_from_espn
\* returns a list (empty when the page has no __NEXT_DATA__ script) unless
\* the script's content is not valid JSON or is nested too deeply for
\* json.loads, in which case it raises and build_calendar emits the
\* placeholder; when it returns, the document holds the static blocks and
\* the UFC blocks, and a placeholder only if building a UFC block raised.
C2_ExtractionOutcome ==
    (pc = "done" /\ resp.status = "ok") =>
        LET bs == BlocksOf(doc)
            placeholder == \E i \in 1..Len(bs) : IsPlaceholder(bs[i])
        IN  /\ ret.raised <=> resp.script \in {"invalid", "deep"}
            /\ resp.script = "absent" => ret.ret = <<>> /\ Len(bs) = NStatic
            /\ SubSeq(bs, 1, NStatic) = StaticReference
            /\ placeholder <=> (ret.raised \/ EndOutOfRange(ret.ret))
            /\ ~placeholder => Len(bs) = NStatic + Len(ret.ret)

\* C2, reached: the script held JSON that is no object, and the document
\* has the static blocks alone
C2_Witness ==
    /\ pc = "done"
    /\ resp.status = "ok"
    /\ resp.script = "json"
    /\ resp.data.t = "num"
    /\ ~exc.raised
    /\ Len(BlocksOf(doc)) = NStatic

\* C3: a node whose date text does not parse is dropped on its own and
\* never aborts the call: the list returned equals the list returned for the
\* same sequence of nodes without the nodes whose date does not parse.
C3_UnparseableDropped ==
    (pc = "fetch_done" /\ resp.status = "ok" /\ resp.script = "json") =>
        /\ ~ret.raised
        /\ ret.ret = SortByStart(Dedup(Collect(
                         SelectSeq(PageNodes, LAMBDA n : ~Unparseable(n)),
                         <<>>, now, tzdb, max_events), <<>>))

\* C3, reached: a node that does not parse comes before one that is returned
C3_Witness ==
    /\ FetchReturned
    /\ max_events >= 1
    /\ \E i, j \in 1..Len(PageNodes) :
          /\ i < j
          /\ Unparseable(PageNodes[i])
          /\ Contains(NodeName(PageNodes[i]).txt, UFCToken)
          /\ Accepted(PageNodes[j], now, tzdb)
          /\ \E k \in 1..Len(ret.ret) : ret.ret[k] = EventOf(PageNodes[j], tzdb)

\* the candidates the loop took before its break
Taken ==
    LET n == Len(PassingNodes)
        cap == IF max_events >= 1 THEN max_events ELSE 1
    IN  SubSeq(PassingNodes, 1, IF n < cap THEN n ELSE cap)

\* C4: no two records returned share the pair (name trimmed, start), and
\* every pair among the candidates taken, however often and with whatever
\* location it occurs, is that of exactly one record.
C4_Deduplicated ==
    (pc = "fetch_done" /\ ~ret.raised) =>
        /\ \A i, j \in 1..Len(ret.ret) :
              i # j => Identity(ret.ret[i]) # Identity(ret.ret[j])
        /\ \A i \in 1..Len(Taken) :
              Cardinality({k \in 1..Len(ret.ret) :
                             Identity(ret.ret[k]) = Identity(EventOf(Taken[i], tzdb))}) = 1

\* C4, reached: two candidates with one pair and two locations, one record
C4_Witness ==
    /\ FetchReturned
    /\ Len(ret.ret) = 1
    /\ \E i, j \in 1..Len(Taken) :
          /\ i < j
          /\ Identity(EventOf(Taken[i], tzdb)) = Identity(EventOf(Taken[j], tzdb))
          /\ EventOf(Taken[i], tzdb).location # EventOf(Taken[j], tzdb).location
          /\ EventOf(Taken[i], tzdb).name # EventOf(Taken[j], tzdb).name

\* the seconds from st to t when they are at most 30 days apart, else -1
SecondsBefore(st, t) ==
    IF t.ord - st.ord \in 0..30 THEN (t.ord - st.ord) * 86400 + (t.sec - st.sec) ELSE -1

\* a record with the node's identity was returned
Kept(node) ==
    \E k \in 1..Len(ret.ret) : Identity(ret.ret[k]) = Identity(EventOf(node, tzdb))

C6_SortedAscending ==
    /\ (AfterFetch /\ ~ret.raised) =>
          \A i, j \in 1..Len(ret.ret) :
              i < j => ~Earlier(ret.ret[j].start_et, ret.ret[i].start_et)
    /\ (pc = "done" /\ ~ret.raised) =>
          LET ub == UFCBlocks
          IN  /\ Len(ub) <= Len(ret.ret)
              /\ ~exc.raised => Len(ub) = Len(ret.ret)
              /\ \A i \in 1..Len(ub) :
                    /\ DecodeLocal(LineOf(ub[i], "DTSTART").v) = WallClock(ret.ret[i].start_et)
                    /\ LineOf(ub[i], "SUMMARY").v
                          = <<"(purple square) ">> \o EscapeEach(ret.ret[i].name)

\* C6, reached: two blocks were emitted for candidates the page lists latest
\* first
C6_Witness ==
    /\ pc = "done"
    /\ ~exc.raised
    /\ Len(UFCBlocks) >= 2
    /\ \E i, j \in 1..Len(PassingNodes) :
          i < j /\ Earlier(StartOf(PassingNodes[j], tzdb), StartOf(PassingNodes[i], tzdb))

\* 2026-02-28 19:00:00, a wall clock of New York
ExampleStart == [ord |-> ToOrdinal([y |-> 2026, m |-> 2, d |-> 28]), sec |-> 19 * 3600]

ExampleLocalText == <<"2", "0", "2", "6", "0", "2", "2", "8", "T", "1", "9", "0", "0", "0", "0">>
ExampleUTCText == <<"2", "0", "2", "6", "0", "3", "0", "1", "T", "0", "0", "0", "0", "0", "0", "Z">>

C8_EndExclusiveRoundTrip ==
    pc = "all_day_done" =>
        LET e == DecodeDate(LineOf(block, "DTEND").v)
            s == DecodeDate(LineOf(block, "DTSTART").v)
        IN  /\ LineOf(block, "DTEND").p = <<"VALUE", "DATE">>
            /\ Len(LineOf(block, "DTEND").v) = 8
            /\ e = NextDay(span.end_inclusive)
            /\ PrevDay(e) = span.end_inclusive
            /\ s = span.start_inclusive

\* C8, reached: a range that ends on the last day of 2026
C8_Witness ==
    /\ pc = "all_day_done"
    /\ span.end_inclusive = [y |-> 2026, m |-> 12, d |-> 31]
    /\ LineOf(block, "DTEND").v = <<"2", "0", "2", "7", "0", "1", "0", "1">>

\* C9: for every text over backslash, comma, semicolon, newline and
\* ordinary characters, ics_escape writes two backslashes for a backslash,
\* backslash-n for a newline, backslash-comma for a comma and
\* backslash-semicolon for a semicolon; the result holds no raw newline and
\* no comma or semicolon that is not escaped, and reading it back by the
\* same rules gives the text again.
C9_EscapeRoundTrip ==
    pc = "escape_done" =>
        /\ escaped = EscapeEach(text)
        /\ \A i \in 1..Len(escaped) : escaped[i] # NL
        /\ \A i \in 1..Len(escaped) :
              escaped[i] \in {",", ";"} => BackslashesBefore(escaped, i) % 2 = 1
        /\ ics_unescape(escaped) = text

\* C9, reached: a text of a comma, a semicolon and a newline
C9_Witness ==
    /\ pc = "escape_done"
    /\ {text[i] : i \in 1..Len(text)} = {",", ";", NL}
    /\ Len(escaped) = 6

\* C10 as claimed: the cap is applied to the accepted candidates in
\* document order before deduplication, so no more than max_events records
\* are returned; and when fewer than max_events candidates pass the filters,
\* the pairs (name trimmed, start) of the records returned are exactly those
\* of the passing candidates, each once.
C10_Cap ==
    (pc = "fetch_done" /\ ~ret.raised) =>
        /\ Len(ret.ret) <= max_events
        /\ Len(PassingNodes) < max_events =>
              /\ {Identity(ret.ret[k]) : k \in 1..Len(ret.ret)}
                    = {Identity(EventOf(PassingNodes[i], tzdb)) : i \in 1..Len(PassingNodes)}
              /\ \A i, j \in 1..Len(ret.ret) :
                    i # j => Identity(ret.ret[i]) # Identity(ret.ret[j])

\* the same for a cap of at least 1: it holds, so only max_events < 1 breaks
\* the bound
CapPositive == max_events >= 1 => C10_Cap


====
